---- MODULE Spec2Model ----
(***************************************************************************)
(* A model of the scrape pipeline of mysqld_exporter:                      *)
(*   collector/slave_status.go  ScrapeSlaveStatus.Scrape, columnIndex,     *)
(*                              columnValue, parseMariaDBGtid              *)
(*   mysqld_exporter.go         filterScrapers, getScrapeTimeoutSeconds,   *)
(*                              newHandler, the /-/reload handler of main  *)
(*                              ScrapeTableSchema.Scrape                   *)
(* Each part of the program has its own specification (SpecDialect,        *)
(* SpecTimeout, ...); the variables of the other parts stay idle in it.    *)
(* Go strings whose characters matter (raw column values, header values)   *)
(* are sequences of one-character strings; query texts and column names    *)
(* are TLA+ strings.                                                       *)
(***************************************************************************)
EXTENDS Integers, Sequences, FiniteSets, TLC

VARIABLES
    \* ---- ScrapeSlaveStatus.Scrape, dialect resolution (slave_status.go:74-97)
    pc,               \* position of Scrape: "outer", "inner", "check", "columns", "done"
    qi,               \* index of the outer loop over slaveStatusQueries
    si,               \* index of the inner loop over slaveStatusQuerySuffixes
    err,              \* Scrape's err: 0 is nil, n > 0 the error of the n-th query sent
    slaveStatusRows,  \* Scrape's slaveStatusRows: 0 is nil, n > 0 the rows of the n-th query
    sent,             \* every db.QueryContext call so far: [text, ok]
    open,             \* the result sets opened on the connection and not closed
    mapped,           \* the result set whose columns are read (0: none yet)
    ret,              \* what Scrape returned: "none" while running
    \* ---- getScrapeTimeoutSeconds alone (mysqld_exporter.go:132-156)
    hdr,              \* the X-Prometheus-Scrape-Timeout-Seconds header value, <<>> when absent
    timeoutOffset,    \* the --timeout-offset flag
    derived,          \* the (timeout, error) returned, or NotCalled
    \* ---- filterScrapers alone (mysqld_exporter.go:110-130)
    enabledScrapers,  \* the scrapers enabled by flag, in the order main built the slice
    collect,          \* the collect[] parameters of the request
    filtered,         \* what filterScrapers returned, or NotFiltered
    \* ---- parseMariaDBGtid alone (slave_status.go:150-181)
    gtidName,         \* the name argument
    gtidValue,        \* the value argument, a sequence of characters
    gtidCh,           \* the metrics sent on ch
    gtidDone,         \* whether parseMariaDBGtid has returned
    \* ---- ScrapeSlaveStatus.Scrape, column mapping (slave_status.go:99-148)
    cpc,              \* position of Scrape: "columns", "rows", "done"
    slaveCols,        \* the column names slaveStatusRows.Columns() returned
    scanArgs,         \* the raw values of the row scanned last, one per column
    rowsRead,         \* the rows scanned so far
    ch,               \* the metrics sent on ch for the row scanned last, in order
    rowsErr,          \* the error the driver raised from Columns or Scan, "none" if none
    cret,             \* what Scrape returned: "none" while running
    \* ---- newHandler and the /-/reload handler (mysqld_exporter.go:162-213, 279-285)
    cConfig,          \* c.Config, the process-wide credential/target snapshot
    mainErr,          \* the variable err of main, which the reload closure assigns
    req,              \* the scrape requests: the locals of each handler call
    rel,              \* the reload requests: position, and what ReloadConfig returned to each
    nRegistries,      \* the registries prometheus.NewRegistry() has made
    lastLoaded,       \* the configuration of the last ReloadConfig that succeeded
    \* ---- one probe's Scrape and the channel it sends on (slave_status.go:73-148,
    \*      mysqld_exporter.go:390-476)
    probe,            \* the Name() of the probe whose Scrape runs
    ppc,              \* position of Scrape: "start", "columns", "dblist", "dbloop", "rows", "done"
    pctx,             \* ctx: "live", or "done" once it is cancelled or past its deadline
    scrapeCh,         \* every metric sent on ch so far, in order
    tableSchemaDatabases, \* the --collect.info_schema.tables.databases flag
    dbList,           \* ScrapeTableSchema's dbList
    di,               \* index of the loop over dbList
    pcols,            \* ScrapeSlaveStatus's slaveCols
    prows,            \* the rows scanned so far from the result set being read
    pret              \* what Scrape returned: "none" while running, "nil", or the error

dialectVars == <<pc, qi, si, err, slaveStatusRows, sent, open, mapped, ret>>

timeoutVars == <<hdr, timeoutOffset, derived>>

filterVars == <<enabledScrapers, collect, filtered>>

gtidVars == <<gtidName, gtidValue, gtidCh, gtidDone>>

columnVars == <<cpc, slaveCols, scanArgs, rowsRead, ch, rowsErr, cret>>

handlerVars == <<cConfig, mainErr, req, rel, nRegistries, lastLoaded>>

probeVars == <<probe, ppc, pctx, scrapeCh, tableSchemaDatabases, dbList, di, pcols, prows, pret>>

vars == <<dialectVars, timeoutVars, filterVars, gtidVars, columnVars, handlerVars, probeVars>>

\* What the actions of one part leave alone.
notDialect == <<timeoutVars, filterVars, gtidVars, columnVars, handlerVars, probeVars>>

notTimeout == <<dialectVars, filterVars, gtidVars, columnVars, handlerVars, probeVars>>

notFilter == <<dialectVars, timeoutVars, gtidVars, columnVars, handlerVars, probeVars>>

notGtid == <<dialectVars, timeoutVars, filterVars, columnVars, handlerVars, probeVars>>

notColumn == <<dialectVars, timeoutVars, filterVars, gtidVars, handlerVars, probeVars>>

notProbe == <<dialectVars, timeoutVars, filterVars, gtidVars, columnVars, handlerVars>>

\* The handlers read timeoutOffset and enabledScrapers and change neither.
notHandler == <<dialectVars, timeoutVars, filterVars, gtidVars, columnVars, probeVars>>

----------------------------------------------------------------------------
(* Helpers on sequences. *)

Range(s) == {s[i] : i \in 1..Len(s)}

\* Every sequence over S of length at most n.
SeqUpTo(S, n) == UNION {[1..k -> S] : k \in 0..n}

----------------------------------------------------------------------------
(* slave_status.go:34-35 *)

slaveStatusQueries == <<"SHOW ALL SLAVES STATUS", "SHOW SLAVE STATUS", "SHOW REPLICA STATUS">>

slaveStatusQuerySuffixes == <<" NONBLOCKING", " NOLOCK", "">>

\* fmt.Sprint(query, suffix): both operands are strings, so no space is added.
Sprint(query, suffix) == query \o suffix

----------------------------------------------------------------------------
(* ScrapeSlaveStatus.Scrape, lines 74-97: the search for a status query    *)
(* the server accepts.  Every db.QueryContext call succeeds or fails as    *)
(* the connection decides; a failed call returns nil rows and its error.   *)

DialectInit ==
    /\ pc = "outer"
    /\ qi = 1
    /\ si = 1
    /\ err = 0
    /\ slaveStatusRows = 0
    /\ sent = <<>>
    /\ open = {}
    /\ mapped = 0
    /\ ret = "none"

DialectIdle ==
    /\ pc = "idle"
    /\ qi = 1
    /\ si = 1
    /\ err = 0
    /\ slaveStatusRows = 0
    /\ sent = <<>>
    /\ open = {}
    /\ mapped = 0
    /\ ret = "none"

\* slaveStatusRows, err = db.QueryContext(ctx, text)
QueryContext(text, ok) ==
    LET n == Len(sent) + 1 IN
    /\ sent' = Append(sent, [text |-> text, ok |-> ok])
    /\ slaveStatusRows' = IF ok THEN n ELSE 0
    /\ err' = IF ok THEN 0 ELSE n
    /\ open' = IF ok THEN open \cup {n} ELSE open

\* Leaving the body of the outer loop for its next iteration (line 80).
NextVariant == IF qi + 1 > Len(slaveStatusQueries) THEN "check" ELSE "outer"

\* Lines 80-82, 90-92: the bare query of the variant; success leaves the
\* outer loop, failure enters the loop over the suffixes.
QueryBare ==
    /\ pc = "outer"
    /\ qi <= Len(slaveStatusQueries)
    /\ \E ok \in BOOLEAN :
         /\ QueryContext(slaveStatusQueries[qi], ok)
         /\ IF ok
              THEN pc' = "check" /\ UNCHANGED <<qi, si>>
              ELSE pc' = "inner" /\ si' = 1 /\ UNCHANGED qi
    /\ UNCHANGED <<mapped, ret>>
    /\ UNCHANGED notDialect

\* Lines 84-89: one suffixed query; the break at line 87 leaves the loop
\* over the suffixes only, and the outer loop goes on with the next variant.
QuerySuffix ==
    /\ pc = "inner"
    /\ si <= Len(slaveStatusQuerySuffixes)
    /\ \E ok \in BOOLEAN :
         /\ QueryContext(Sprint(slaveStatusQueries[qi], slaveStatusQuerySuffixes[si]), ok)
         /\ IF ok \/ si = Len(slaveStatusQuerySuffixes)
              THEN pc' = NextVariant /\ qi' = qi + 1 /\ si' = 1
              ELSE pc' = "inner" /\ si' = si + 1 /\ UNCHANGED qi
    /\ UNCHANGED <<mapped, ret>>
    /\ UNCHANGED notDialect

\* Lines 94-97: return the error of the last query, or go on to the columns
\* of slaveStatusRows with its Close deferred.
CheckErr ==
    /\ pc = "check"
    /\ IF err # 0
         THEN pc' = "done" /\ ret' = "query_error" /\ UNCHANGED mapped
         ELSE pc' = "columns" /\ mapped' = slaveStatusRows /\ UNCHANGED ret
    /\ UNCHANGED <<qi, si, err, slaveStatusRows, sent, open>>
    /\ UNCHANGED notDialect

\* Lines 99-148 seen from the connection: the columns and rows of
\* slaveStatusRows are read, Scrape returns (nil, or the error of Columns
\* or Scan), and the deferred Close of line 97 closes slaveStatusRows.
ReadAndClose ==
    /\ pc = "columns"
    /\ pc' = "done"
    /\ \E r \in {"ok", "rows_error"} : ret' = r
    /\ open' = open \ {slaveStatusRows}
    /\ UNCHANGED <<qi, si, err, slaveStatusRows, sent, mapped>>
    /\ UNCHANGED notDialect

DialectNext == QueryBare \/ QuerySuffix \/ CheckErr \/ ReadAndClose

----------------------------------------------------------------------------
(* getScrapeTimeoutSeconds, mysqld_exporter.go:132-156.  Seconds are       *)
(* integers here; a header value is a sequence of characters.              *)

MaxHdrLen == 2

MaxOffset == 3

HdrChars == {"-", "0", "1", "2", "x"}

DigitChars == <<"0", "1", "2", "3", "4", "5", "6", "7", "8", "9">>

Digits == Range(DigitChars)

DigitVal(d) == (CHOOSE i \in 1..Len(DigitChars) : DigitChars[i] = d) - 1

RECURSIVE ParseDigits(_)
\* The decimal value of a non-empty sequence of digits.
ParseDigits(s) ==
    IF Len(s) = 0 THEN 0
    ELSE 10 * ParseDigits(SubSeq(s, 1, Len(s) - 1)) + DigitVal(s[Len(s)])

\* strconv.ParseFloat(v, 64) on the characters of HdrChars: an optional
\* minus sign and at least one digit, anything else is a syntax error.
ParseFloat(v) ==
    LET neg  == Len(v) > 0 /\ v[1] = "-"
        body == IF neg THEN Tail(v) ELSE v
    IN  IF Len(body) = 0 \/ \E i \in 1..Len(body) : body[i] \notin Digits
          THEN [ok |-> FALSE, val |-> 0]
          ELSE [ok |-> TRUE, val |-> IF neg THEN 0 - ParseDigits(body) ELSE ParseDigits(body)]

\* The comparison of line 148 with > for >=.
getScrapeTimeoutSeconds_StrictOffset(v, offset) ==
    LET p == ParseFloat(v)
        timeoutSeconds == IF v # <<>> THEN p.val ELSE 0
    IN  IF v # <<>> /\ ~p.ok THEN [timeout |-> 0, err |-> "parse"]
        ELSE IF timeoutSeconds = 0 THEN [timeout |-> 0, err |-> "nil"]
        ELSE IF timeoutSeconds < 0 THEN [timeout |-> 0, err |-> "invalid"]
        ELSE IF offset > timeoutSeconds THEN [timeout |-> 0, err |-> "tootight"]
        ELSE [timeout |-> timeoutSeconds - offset, err |-> "nil"]

\* getScrapeTimeoutSeconds(r, offset), with v the value r.Header.Get returns.
getScrapeTimeoutSeconds(v, offset) ==
    LET p == ParseFloat(v)
        timeoutSeconds == IF v # <<>> THEN p.val ELSE 0
    IN  IF v # <<>> /\ ~p.ok THEN [timeout |-> 0, err |-> "parse"]
        ELSE IF timeoutSeconds = 0 THEN [timeout |-> 0, err |-> "nil"]
        ELSE IF timeoutSeconds < 0 THEN [timeout |-> 0, err |-> "invalid"]
        ELSE IF offset >= timeoutSeconds THEN [timeout |-> 0, err |-> "tootight"]
        ELSE [timeout |-> timeoutSeconds - offset, err |-> "nil"]

NotCalled == [timeout |-> 0, err |-> "not called"]

HeaderValues == SeqUpTo(HdrChars, MaxHdrLen)

Offsets == (0 - 1)..MaxOffset

TimeoutIdle ==
    /\ hdr = <<>>
    /\ timeoutOffset = 0
    /\ derived = NotCalled

TimeoutInit ==
    /\ hdr \in HeaderValues
    /\ timeoutOffset \in Offsets
    /\ derived = NotCalled

DeriveTimeout ==
    /\ derived = NotCalled
    /\ derived' = getScrapeTimeoutSeconds(hdr, timeoutOffset)
    /\ UNCHANGED <<hdr, timeoutOffset>>
    /\ UNCHANGED notTimeout

TimeoutNext == DeriveTimeout

----------------------------------------------------------------------------
(* filterScrapers, mysqld_exporter.go:110-130.  A scraper is the name of   *)
(* its type; its Name() is what the collect[] parameters are matched with. *)

MaxEnabled == 3

MaxCollect == 2

Scrapers == {"ScrapeGlobalStatus", "ScrapeSlaveStatus", "ScrapeTableSchema"}

\* Scraper.Name(): slave_status.go:31,58-60, mysqld_exporter.go:375-377.
Name(scraper) ==
    CASE scraper = "ScrapeSlaveStatus" -> "slave_status"
      [] scraper = "ScrapeTableSchema" -> "info_schema.tables"
      [] scraper = "ScrapeGlobalStatus" -> "global_status"

\* The scrapers named by the parameters, in the order of the parameters.
filterScrapers_ParamOrder(scrapers, collectParams) ==
    LET Pick(param) == SelectSeq(scrapers, LAMBDA sc : Name(sc) = param)
        F[i \in 0..Len(collectParams)] ==
            IF i = 0 THEN <<>> ELSE F[i - 1] \o Pick(collectParams[i])
        filteredScrapers == F[Len(collectParams)]
    IN  IF Len(filteredScrapers) = 0 THEN scrapers ELSE filteredScrapers

filterScrapers(scrapers, collectParams) ==
    LET filters == Range(collectParams)
        filteredScrapers ==
            IF Len(collectParams) > 0
              THEN SelectSeq(scrapers, LAMBDA sc : Name(sc) \in filters)
              ELSE <<>>
    IN  IF Len(filteredScrapers) = 0 THEN scrapers ELSE filteredScrapers

NotFiltered == <<"not filtered">>

\* The slices main can build (lines 250-256): each scraper at most once.
EnabledLists ==
    {l \in SeqUpTo(Scrapers, MaxEnabled) : \A i, j \in 1..Len(l) : i # j => l[i] # l[j]}

CollectLists == SeqUpTo({Name(sc) : sc \in Scrapers} \cup {"unknown"}, MaxCollect)

FilterIdle ==
    /\ enabledScrapers = <<>>
    /\ collect = <<>>
    /\ filtered = NotFiltered

FilterInit ==
    /\ enabledScrapers \in EnabledLists
    /\ collect \in CollectLists
    /\ filtered = NotFiltered

Filter ==
    /\ filtered = NotFiltered
    /\ filtered' = filterScrapers(enabledScrapers, collect)
    /\ UNCHANGED <<enabledScrapers, collect>>
    /\ UNCHANGED notFilter

FilterNext == Filter

----------------------------------------------------------------------------
(* parseMariaDBGtid, slave_status.go:150-181.  A metric is its fully       *)
(* qualified name, its label values in the order of the descriptor, its    *)
(* value and its value type.                                               *)

MaxGtidLen == 5

slaveStatus == "slave_status"

namespace == "mysql"

\* prometheus.BuildFQName(namespace, subsystem, name)
BuildFQName(ns, subsystem, name) == ns \o "_" \o subsystem \o "_" \o name

\* strings.ToLower on the column names of the model.
ToLower(name) ==
    CASE name = "Master_Host" -> "master_host"
      [] name = "Source_Host" -> "source_host"
      [] name = "Master_UUID" -> "master_uuid"
      [] name = "Source_UUID" -> "source_uuid"
      [] name = "Channel_Name" -> "channel_name"
      [] name = "Connection_name" -> "connection_name"
      [] name = "Gtid_IO_Pos" -> "gtid_io_pos"
      [] name = "Gtid_Slave_Pos" -> "gtid_slave_pos"
      [] name = "Seconds_Behind_Master" -> "seconds_behind_master"
      [] name = "Slave_IO_State" -> "slave_io_state"

RECURSIVE Split(_, _)
\* strings.Split(s, sep) for a one-character sep: the pieces between the
\* occurrences of sep, one more than there are occurrences.
Split(s, sep) ==
    IF \A i \in 1..Len(s) : s[i] # sep THEN <<s>>
    ELSE LET i == CHOOSE k \in 1..Len(s) : s[k] = sep /\ \A j \in 1..(k - 1) : s[j] # sep
         IN  <<SubSeq(s, 1, i - 1)>> \o Split(SubSeq(s, i + 1, Len(s)), sep)

\* strconv.ParseUint(s, 10, 64): digits only, at least one, no sign.
ParseUint(s) ==
    IF Len(s) = 0 \/ \E i \in 1..Len(s) : s[i] \notin Digits
      THEN [ok |-> FALSE, val |-> 0]
      ELSE [ok |-> TRUE, val |-> ParseDigits(s)]

\* The metric of lines 169-179.
GtidMetric(name, sequence_num, masterHost, masterUUID, channelName, connectionName, domainID, serverID) ==
    [name   |-> BuildFQName(namespace, slaveStatus, ToLower(name)),
     labels |-> <<masterHost, masterUUID, channelName, connectionName, domainID, serverID>>,
     kind   |-> "gauge",
     value  |-> sequence_num]

\* The loop of lines 155-180 with a malformed entry ending it.
parseMariaDBGtid_StopAtMalformed(name, value, masterHost, masterUUID, channelName, connectionName) ==
    LET gtids == Split(value, ",")
        Emit[i \in 0..Len(gtids)] ==
            IF i = 0 THEN [out |-> <<>>, stop |-> FALSE]
            ELSE LET parts == Split(gtids[i], "-")
                     prev  == Emit[i - 1]
                 IN  IF prev.stop THEN prev
                     ELSE IF Len(parts) # 3 THEN [out |-> prev.out, stop |-> TRUE]
                     ELSE IF ~ParseUint(parts[3]).ok THEN [out |-> prev.out, stop |-> TRUE]
                     ELSE [out |-> Append(prev.out,
                                     GtidMetric(name, ParseUint(parts[3]).val, masterHost, masterUUID,
                                                channelName, connectionName, parts[1], parts[2])),
                           stop |-> FALSE]
    IN  IF value = <<>> THEN <<>> ELSE Emit[Len(gtids)].out

\* parseMariaDBGtid: the metrics it sends on ch, in order.
parseMariaDBGtid(name, value, masterHost, masterUUID, channelName, connectionName) ==
    LET gtids == Split(value, ",")
        Emit[i \in 0..Len(gtids)] ==
            IF i = 0 THEN <<>>
            ELSE LET parts == Split(gtids[i], "-")
                 IN  IF Len(parts) # 3 THEN Emit[i - 1]
                     ELSE IF ~ParseUint(parts[3]).ok THEN Emit[i - 1]
                     ELSE Append(Emit[i - 1],
                                 GtidMetric(name, ParseUint(parts[3]).val, masterHost, masterUUID,
                                            channelName, connectionName, parts[1], parts[2]))
    IN  IF value = <<>> THEN <<>> ELSE Emit[Len(gtids)]

GtidChars == {"5", "-", ",", "x"}

\* "5-1-100,6-2-200", "5-1" and "5-1,6-2-200"
GtidExamples ==
    { <<"5", "-", "1", "-", "1", "0", "0", ",", "6", "-", "2", "-", "2", "0", "0">>,
      <<"5", "-", "1">>,
      <<"5", "-", "1", ",", "6", "-", "2", "-", "2", "0", "0">> }

GtidValues == SeqUpTo(GtidChars, MaxGtidLen) \cup GtidExamples

GtidNames == {"Gtid_IO_Pos", "Gtid_Slave_Pos"}

\* The label values Scrape passes on: a host, a UUID, no channel, a connection.
GtidLabels == << <<"d", "b", "1">>, <<"u">>, <<>>, <<"c">> >>

GtidIdle ==
    /\ gtidName = "Gtid_IO_Pos"
    /\ gtidValue = <<>>
    /\ gtidCh = <<>>
    /\ gtidDone = FALSE

GtidInit ==
    /\ gtidName \in GtidNames
    /\ gtidValue \in GtidValues
    /\ gtidCh = <<>>
    /\ gtidDone = FALSE

ParseGtid ==
    /\ ~gtidDone
    /\ gtidDone' = TRUE
    /\ gtidCh' = parseMariaDBGtid(gtidName, gtidValue, GtidLabels[1], GtidLabels[2],
                                  GtidLabels[3], GtidLabels[4])
    /\ UNCHANGED <<gtidName, gtidValue>>
    /\ UNCHANGED notGtid

GtidNext == ParseGtid

----------------------------------------------------------------------------
(* ScrapeSlaveStatus.Scrape, lines 99-148: the columns of the result set   *)
(* are read once, then every row is scanned into raw values and mapped to  *)
(* metrics.  The metrics of a row are sent on ch, which the collector      *)
(* drains; ch holds the ones of the row scanned last.                      *)

MaxCols == 2

MaxRows == 2

ColumnNames ==
    {"Master_Host", "Source_Host", "Master_UUID", "Source_UUID", "Channel_Name",
     "Connection_name", "Gtid_IO_Pos", "Gtid_Slave_Pos", "Seconds_Behind_Master",
     "Slave_IO_State"}

\* The raw values of a column: "" (NULL), the number "7", and "0-1-7",
\* a text that is no number and is a GTID position.
RawValues == { <<>>, <<"7">>, <<"0", "-", "1", "-", "7">> }

\* The column lists of a result set: no name twice.
ColumnLists ==
    {l \in SeqUpTo(ColumnNames, MaxCols) : \A i, j \in 1..Len(l) : i # j => l[i] # l[j]}

\* The loop of lines 38-42 without its comparison: the first column.
columnIndex_First(cols, colName) == IF Len(cols) = 0 THEN 0 - 1 ELSE 1

\* columnIndex: the first index (from 1) of colName, -1 when it is absent.
columnIndex(cols, colName) ==
    IF \E idx \in 1..Len(cols) : cols[idx] = colName
      THEN CHOOSE idx \in 1..Len(cols) :
               cols[idx] = colName /\ \A k \in 1..(idx - 1) : cols[k] # colName
      ELSE 0 - 1

columnValue(args, cols, colName) ==
    LET idx == columnIndex(cols, colName)
    IN  IF idx = 0 - 1 THEN <<>> ELSE args[idx]

\* parseStatus(data): the raw value as a number, and whether it is one.
parseStatus(data) == ParseFloat(data)

\* The metric of lines 130-140.
GenericMetric(col, value, masterHost, masterUUID, channelName, connectionName) ==
    [name   |-> BuildFQName(namespace, slaveStatus, ToLower(col)),
     labels |-> <<masterHost, masterUUID, channelName, connectionName>>,
     kind   |-> "untyped",
     value  |-> value]

\* The loop of lines 128-142 ending at the first value that is no number.
GenericMetrics_StopAtText(cols, args, masterHost, masterUUID, channelName, connectionName) ==
    LET Emit[i \in 0..Len(cols)] ==
            IF i = 0 THEN [out |-> <<>>, stop |-> FALSE]
            ELSE IF Emit[i - 1].stop THEN Emit[i - 1]
            ELSE IF parseStatus(args[i]).ok
              THEN [out |-> Append(Emit[i - 1].out,
                                    GenericMetric(cols[i], parseStatus(args[i]).val, masterHost,
                                                  masterUUID, channelName, connectionName)),
                    stop |-> FALSE]
              ELSE [out |-> Emit[i - 1].out, stop |-> TRUE]
    IN  Emit[Len(cols)].out

\* Lines 128-142: one metric per column whose raw value is a number.
GenericMetrics(cols, args, masterHost, masterUUID, channelName, connectionName) ==
    LET Emit[i \in 0..Len(cols)] ==
            IF i = 0 THEN <<>>
            ELSE IF parseStatus(args[i]).ok
              THEN Append(Emit[i - 1],
                          GenericMetric(cols[i], parseStatus(args[i]).val, masterHost,
                                        masterUUID, channelName, connectionName))
              ELSE Emit[i - 1]
    IN  Emit[Len(cols)]

\* Lines 117-145: the metrics one row sends, in order.
ScrapeRow(cols, args) ==
    LET uuid1          == columnValue(args, cols, "Master_UUID")
        masterUUID     == IF uuid1 = <<>> THEN columnValue(args, cols, "Source_UUID") ELSE uuid1
        host1          == columnValue(args, cols, "Master_Host")
        masterHost     == IF host1 = <<>> THEN columnValue(args, cols, "Source_Host") ELSE host1
        channelName    == columnValue(args, cols, "Channel_Name")
        connectionName == columnValue(args, cols, "Connection_name")
    IN  GenericMetrics(cols, args, masterHost, masterUUID, channelName, connectionName)
        \o parseMariaDBGtid("Gtid_IO_Pos", columnValue(args, cols, "Gtid_IO_Pos"),
                            masterHost, masterUUID, channelName, connectionName)
        \o parseMariaDBGtid("Gtid_Slave_Pos", columnValue(args, cols, "Gtid_Slave_Pos"),
                            masterHost, masterUUID, channelName, connectionName)

ColumnIdle ==
    /\ cpc = "idle"
    /\ slaveCols = <<>>
    /\ scanArgs = <<>>
    /\ rowsRead = 0
    /\ ch = <<>>
    /\ rowsErr = "none"
    /\ cret = "none"

\* Line 97: a status query has succeeded and Close is deferred.
ColumnInit ==
    /\ cpc = "columns"
    /\ slaveCols = <<>>
    /\ scanArgs = <<>>
    /\ rowsRead = 0
    /\ ch = <<>>
    /\ rowsErr = "none"
    /\ cret = "none"

\* Lines 99-102, Columns() succeeds.
ReadColumns ==
    /\ cpc = "columns"
    /\ \E cols \in ColumnLists : slaveCols' = cols
    /\ cpc' = "rows"
    /\ UNCHANGED <<scanArgs, rowsRead, ch, rowsErr, cret>>
    /\ UNCHANGED notColumn

\* Lines 99-102, Columns() fails.
ColumnsFail ==
    /\ cpc = "columns"
    /\ rowsErr' = "columns"
    /\ cret' = "error"
    /\ cpc' = "done"
    /\ UNCHANGED <<slaveCols, scanArgs, rowsRead, ch>>
    /\ UNCHANGED notColumn

\* Lines 104-146: Next() reports a row, Scan succeeds, the row is mapped.
ScanRow ==
    /\ cpc = "rows"
    /\ rowsRead < MaxRows
    /\ \E args \in [1..Len(slaveCols) -> RawValues] :
         /\ scanArgs' = args
         /\ ch' = ScrapeRow(slaveCols, args)
    /\ rowsRead' = rowsRead + 1
    /\ UNCHANGED <<cpc, slaveCols, rowsErr, cret>>
    /\ UNCHANGED notColumn

\* Lines 113-115: Next() reports a row and Scan fails.
ScanFail ==
    /\ cpc = "rows"
    /\ rowsRead < MaxRows
    /\ rowsErr' = "scan"
    /\ cret' = "error"
    /\ cpc' = "done"
    /\ UNCHANGED <<slaveCols, scanArgs, rowsRead, ch>>
    /\ UNCHANGED notColumn

\* Lines 104, 147: Next() reports no further row.
RowsEnd ==
    /\ cpc = "rows"
    /\ cret' = "ok"
    /\ cpc' = "done"
    /\ UNCHANGED <<slaveCols, scanArgs, rowsRead, ch, rowsErr>>
    /\ UNCHANGED notColumn

ColumnNext == ReadColumns \/ ColumnsFail \/ ScanRow \/ ScanFail \/ RowsEnd

----------------------------------------------------------------------------
(* newHandler, mysqld_exporter.go:162-213, and the /-/reload handler of    *)
(* main, lines 279-285.  Every request runs its handler in a goroutine of  *)
(* its own; the steps of different requests interleave.  The config        *)
(* package (GetConfig, ReloadConfig, FormDSN) and collector.New are        *)
(* outside these sources: ReloadConfig swaps the snapshot when the file    *)
(* it reads is valid and returns an error, changing nothing, otherwise.    *)

MaxRequests == 1

MaxReloads == 2

RequestIds == 1..MaxRequests

ReloadIds == 1..MaxReloads

\* The configurations a valid file can hold.
Configs == {"cnfA", "cnfB"}

FileContents == Configs \cup {"invalid"}

HandlerTargets == {"", "db2:3306"}

\* absent, "x", "-1", "1" and "2"
HandlerHeaders == { <<>>, <<"x">>, <<"-", "1">>, <<"1">>, <<"2">> }

HandlerCollects == { <<>>, <<"slave_status">> }

HandlerOffsets == {0, 1}

NoDSN == [credentials |-> "none", address |-> "none"]

\* cfgsection.FormDSN(target): the credentials of the section, and the
\* target when one is given, the address of the section otherwise.
FormDSN(cfg, target) ==
    [credentials |-> cfg, address |-> IF target = "" THEN cfg ELSE target]

\* r.Context() of request r.
RequestContext(r) == [request |-> r, timeout |-> 0]

\* context.WithTimeout(ctx, d): a child of ctx that also ends after d.
WithTimeout(ctx, d) == [request |-> ctx.request, timeout |-> d]

NoCollector == [ctx |-> RequestContext(0), dsn |-> NoDSN, scrapers |-> <<>>, registry |-> 0]

IdleRequest ==
    [pc |-> "idle", target |-> "", hdr |-> <<>>, collect |-> <<>>, cfg |-> "none",
     dsn |-> NoDSN, derived |-> NotCalled, ctx |-> RequestContext(0),
     collector |-> NoCollector]

IdleReload == [pc |-> "idle", result |-> "none", acked |-> FALSE]

HandlerIdle ==
    /\ cConfig = "cnfA"
    /\ mainErr = "nil"
    /\ req = [r \in RequestIds |-> IdleRequest]
    /\ rel = [l \in ReloadIds |-> IdleReload]
    /\ nRegistries = 0
    /\ lastLoaded = "cnfA"

\* main, lines 243-257: ReloadConfig has succeeded (err is nil) and the
\* enabled scrapers are collected from a map, in any order.
HandlerInit ==
    /\ cConfig \in Configs
    /\ lastLoaded = cConfig
    /\ mainErr = "nil"
    /\ req = [r \in RequestIds |-> IdleRequest]
    /\ rel = [l \in ReloadIds |-> IdleReload]
    /\ nRegistries = 0

\* A request reaches the handler: lines 164-170 and 181, 184.
ArriveWith(r, headers, collects) ==
    /\ req[r].pc = "idle"
    /\ \E t \in HandlerTargets, h \in headers, cl \in collects :
         req' = [req EXCEPT ![r] = [@ EXCEPT !.pc = "start", !.target = t, !.hdr = h,
                                              !.collect = cl, !.ctx = RequestContext(r)]]
    /\ UNCHANGED <<cConfig, mainErr, rel, nRegistries, lastLoaded>>
    /\ UNCHANGED notHandler

Arrive == \E r \in RequestIds : ArriveWith(r, HandlerHeaders, HandlerCollects)

\* A request with no timeout header and no collect[] parameter.
ArrivePlain == \E r \in RequestIds : ArriveWith(r, {<<>>}, {<<>>})

\* Line 172: cfg := c.GetConfig()
GetConfig ==
    \E r \in RequestIds :
        /\ req[r].pc = "start"
        /\ req' = [req EXCEPT ![r] = [@ EXCEPT !.pc = "config", !.cfg = cConfig]]
        /\ UNCHANGED <<cConfig, mainErr, rel, nRegistries, lastLoaded>>
        /\ UNCHANGED notHandler

\* Lines 173-179: the DSN from section [client] of cfg.
HandlerFormDSN ==
    \E r \in RequestIds :
        /\ req[r].pc = "config"
        /\ req' = [req EXCEPT ![r] = [@ EXCEPT !.pc = "dsn",
                                                !.dsn = FormDSN(req[r].cfg, req[r].target)]]
        /\ UNCHANGED <<cConfig, mainErr, rel, nRegistries, lastLoaded>>
        /\ UNCHANGED notHandler

\* Lines 186-197 with a derivation error ending the request.
DeriveContext_FailClosed ==
    \E r \in RequestIds :
        /\ req[r].pc = "dsn"
        /\ LET d == getScrapeTimeoutSeconds(req[r].hdr, timeoutOffset)
           IN  req' = [req EXCEPT ![r] =
                        [@ EXCEPT !.pc = IF d.err # "nil" THEN "done" ELSE "context",
                                  !.derived = d,
                                  !.ctx = IF d.timeout > 0 THEN WithTimeout(req[r].ctx, d.timeout)
                                                           ELSE req[r].ctx]]
        /\ UNCHANGED <<cConfig, mainErr, rel, nRegistries, lastLoaded>>
        /\ UNCHANGED notHandler

\* Lines 186-197: the error is logged; a timeout context is made when the
\* derived timeout is positive.
DeriveContext ==
    \E r \in RequestIds :
        /\ req[r].pc = "dsn"
        /\ LET d == getScrapeTimeoutSeconds(req[r].hdr, timeoutOffset)
           IN  req' = [req EXCEPT ![r] =
                        [@ EXCEPT !.pc = "context",
                                  !.derived = d,
                                  !.ctx = IF d.timeout > 0 THEN WithTimeout(req[r].ctx, d.timeout)
                                                           ELSE req[r].ctx]]
        /\ UNCHANGED <<cConfig, mainErr, rel, nRegistries, lastLoaded>>
        /\ UNCHANGED notHandler

\* Lines 199-203: the scrapers are selected, a registry is made and the
\* collector is registered in it.
BuildCollector ==
    \E r \in RequestIds :
        /\ req[r].pc = "context"
        /\ nRegistries' = nRegistries + 1
        /\ req' = [req EXCEPT ![r] =
                     [@ EXCEPT !.pc = "registered",
                               !.collector =
                                   [ctx      |-> req[r].ctx,
                                    dsn      |-> req[r].dsn,
                                    scrapers |-> filterScrapers(enabledScrapers, req[r].collect),
                                    registry |-> nRegistries + 1]]]
        /\ UNCHANGED <<cConfig, mainErr, rel, lastLoaded>>
        /\ UNCHANGED notHandler

\* Lines 205-211: the gatherers serve the request; the collector scrapes
\* its DSN under its context.
ServeHTTP ==
    \E r \in RequestIds :
        /\ req[r].pc = "registered"
        /\ req' = [req EXCEPT ![r] = [@ EXCEPT !.pc = "done"]]
        /\ UNCHANGED <<cConfig, mainErr, rel, nRegistries, lastLoaded>>
        /\ UNCHANGED notHandler

\* Line 280, first half: err = c.ReloadConfig(...).  The file holds any
\* content; the assignment is to the err of main, shared by all calls.
Reload ==
    \E l \in ReloadIds, content \in FileContents :
        LET result == IF content = "invalid" THEN "error" ELSE "nil" IN
        /\ rel[l].pc = "idle"
        /\ cConfig' = IF result = "nil" THEN content ELSE cConfig
        /\ lastLoaded' = IF result = "nil" THEN content ELSE lastLoaded
        /\ mainErr' = result
        /\ rel' = [rel EXCEPT ![l] = [@ EXCEPT !.pc = "called", !.result = result]]
        /\ UNCHANGED <<req, nRegistries>>
        /\ UNCHANGED notHandler

\* Lines 280-284, second half: err != nil, and "ok" is written when err is
\* nil.  The reads and writes of err by concurrent calls are not ordered
\* (a data race): the value tested is the one this call assigned, when the
\* build keeps it in a register, or the one err holds now.
CheckReload ==
    \E l \in ReloadIds : \E seen \in {rel[l].result, mainErr} :
        /\ rel[l].pc = "called"
        /\ rel' = [rel EXCEPT ![l] = [@ EXCEPT !.pc = "done", !.acked = (seen = "nil")]]
        /\ UNCHANGED <<cConfig, mainErr, req, nRegistries, lastLoaded>>
        /\ UNCHANGED notHandler

\* The scrape requests alone, with every header and collect[] value.
HandlerNext ==
    Arrive \/ GetConfig \/ HandlerFormDSN \/ DeriveContext \/ BuildCollector \/ ServeHTTP

\* Scrape requests and reloads together.
ReloadNext ==
    \/ ArrivePlain \/ GetConfig \/ HandlerFormDSN \/ DeriveContext \/ BuildCollector
    \/ ServeHTTP \/ Reload \/ CheckReload

----------------------------------------------------------------------------
(* One probe's Scrape and the channel ch it is given: ScrapeSlaveStatus     *)
(* (slave_status.go:73-148) and ScrapeTableSchema                           *)
(* (mysqld_exporter.go:390-476).  ch arrives with what was sent on it       *)
(* before the call; scrapeCh is everything sent on it so far.  The context  *)
(* can be cancelled at any moment while Scrape runs: a query started        *)
(* afterwards fails with the context's error, and the rows being read are   *)
(* closed by the driver at some later moment, so Next() may still report a  *)
(* row or report none.                                                      *)

MaxProbeRows == 2

informationSchema == "info_schema"

Probes == {Name("ScrapeSlaveStatus"), Name("ScrapeTableSchema")}

\* What ch holds when Scrape is called: nothing, or the connection gauge.
EarlierMetrics ==
    { <<>>, <<[name |-> "mysql_up", labels |-> <<>>, kind |-> "gauge", value |-> 1]>> }

\* The values of the flag: every database, one database, two databases.
TableSchemaFlags == { <<"*">>, <<"a">>, <<"a", ",", "b">> }

\* The databases dbListQuery can report.
Databases == { <<"a">>, <<"b">> }

\* The rows tableSchemaQuery can report for a database: a table and a view.
TableRows ==
    { [tableName |-> "t1", tableType |-> "BASE TABLE", engine |-> "InnoDB", version |-> 10,
       rowFormat |-> "Dynamic", tableRows |-> 3, dataLength |-> 16, indexLength |-> 4,
       dataFree |-> 0, createOptions |-> ""],
      [tableName |-> "v1", tableType |-> "VIEW", engine |-> "NONE", version |-> 0,
       rowFormat |-> "NONE", tableRows |-> 0, dataLength |-> 0, indexLength |-> 0,
       dataFree |-> 0, createOptions |-> "NONE"] }

\* The column lists of the status rows read here.
ProbeColumnLists == { <<"Seconds_Behind_Master">>, <<"Gtid_IO_Pos", "Master_Host">> }

\* A channel that keeps the metrics sent last only.
Send_KeepLast(c, metrics) == metrics

\* ch <- m for every m of metrics, in order.
Send(c, metrics) == c \o metrics

\* prometheus.MustNewConstMetric(desc, prometheus.GaugeValue, value, labels...)
\* for the descriptors of lines 354-368.
TableMetric(name, labels, value) ==
    [name   |-> BuildFQName(namespace, informationSchema, name),
     labels |-> labels,
     kind   |-> "gauge",
     value  |-> value]

\* Lines 452-471: the five metrics of one row of information_schema.tables.
TableRowMetrics(tableSchema, row) ==
    << TableMetric("table_version",
                   <<tableSchema, row.tableName, row.tableType, row.engine, row.rowFormat,
                     row.createOptions>>, row.version),
       TableMetric("table_rows", <<tableSchema, row.tableName>>, row.tableRows),
       TableMetric("table_size", <<tableSchema, row.tableName, "data_length">>, row.dataLength),
       TableMetric("table_size", <<tableSchema, row.tableName, "index_length">>, row.indexLength),
       TableMetric("table_size", <<tableSchema, row.tableName, "data_free">>, row.dataFree) >>

\* What db.QueryContext(ctx, ...) can do: "ok", or the error it returns.
QueryOutcomes == IF pctx = "done" THEN {"canceled"} ELSE {"ok", "query"}

\* What rows.Next() followed by rows.Scan(...) can do.
NextOutcomes == {"row", "scan", "end"}

ProbeIdle ==
    /\ probe = "none"
    /\ ppc = "idle"
    /\ pctx = "live"
    /\ scrapeCh = <<>>
    /\ tableSchemaDatabases = <<"*">>
    /\ dbList = <<>>
    /\ di = 1
    /\ pcols = <<>>
    /\ prows = 0
    /\ pret = "none"

\* Scrape is called with a live context.
ProbeInit ==
    /\ probe \in Probes
    /\ ppc = "start"
    /\ pctx = "live"
    /\ scrapeCh \in EarlierMetrics
    /\ tableSchemaDatabases \in
         (IF probe = Name("ScrapeTableSchema") THEN TableSchemaFlags ELSE { <<"*">> })
    /\ dbList = <<>>
    /\ di = 1
    /\ pcols = <<>>
    /\ prows = 0
    /\ pret = "none"

\* return e
Return(e) ==
    /\ ppc' = "done"
    /\ pret' = e

\* The context is cancelled, or its deadline passes, while Scrape runs.
Cancel ==
    /\ ppc \notin {"idle", "done"}
    /\ pctx = "live"
    /\ pctx' = "done"
    /\ UNCHANGED <<probe, ppc, scrapeCh, tableSchemaDatabases, dbList, di, pcols, prows, pret>>
    /\ UNCHANGED notProbe

\* slave_status.go:80-97: the search for the status query ends with a
\* result set, or with the error of the query sent last.
SlaveQuery ==
    /\ probe = Name("ScrapeSlaveStatus")
    /\ ppc = "start"
    /\ \E o \in QueryOutcomes :
         IF o = "ok"
           THEN ppc' = "columns" /\ UNCHANGED pret
           ELSE Return(o)
    /\ UNCHANGED <<probe, pctx, scrapeCh, tableSchemaDatabases, dbList, di, pcols, prows>>
    /\ UNCHANGED notProbe

\* slave_status.go:99-102
SlaveColumns ==
    /\ probe = Name("ScrapeSlaveStatus")
    /\ ppc = "columns"
    /\ \/ \E cols \in ProbeColumnLists :
            /\ pcols' = cols
            /\ ppc' = "rows"
            /\ UNCHANGED pret
       \/ /\ Return("columns")
          /\ UNCHANGED pcols
    /\ UNCHANGED <<probe, pctx, scrapeCh, tableSchemaDatabases, dbList, di, prows>>
    /\ UNCHANGED notProbe

\* slave_status.go:104-147: one turn of the loop over the rows.  The error
\* of the rows themselves is not looked at: when Next() reports no row,
\* Scrape returns nil.
SlaveNext ==
    /\ probe = Name("ScrapeSlaveStatus")
    /\ ppc = "rows"
    /\ \E o \in NextOutcomes :
         CASE o = "row" ->
                /\ prows < MaxProbeRows
                /\ \E args \in [1..Len(pcols) -> RawValues] :
                     scrapeCh' = Send(scrapeCh, ScrapeRow(pcols, args))
                /\ prows' = prows + 1
                /\ UNCHANGED <<ppc, pret>>
           [] o = "scan" ->
                /\ Return("scan")
                /\ UNCHANGED <<scrapeCh, prows>>
           [] o = "end" ->
                /\ Return("nil")
                /\ UNCHANGED <<scrapeCh, prows>>
    /\ UNCHANGED <<probe, pctx, tableSchemaDatabases, dbList, di, pcols>>
    /\ UNCHANGED notProbe

\* mysqld_exporter.go:393-398, 410-412: the list of databases is queried,
\* or is the flag split at its commas.
TableStart ==
    /\ probe = Name("ScrapeTableSchema")
    /\ ppc = "start"
    /\ IF tableSchemaDatabases = <<"*">>
         THEN /\ \E o \in QueryOutcomes :
                   IF o = "ok"
                     THEN ppc' = "dblist" /\ UNCHANGED pret
                     ELSE Return(o)
              /\ UNCHANGED dbList
         ELSE /\ dbList' = Split(tableSchemaDatabases, ",")
              /\ ppc' = "dbloop"
              /\ UNCHANGED pret
    /\ UNCHANGED <<probe, pctx, scrapeCh, tableSchemaDatabases, di, pcols, prows>>
    /\ UNCHANGED notProbe

\* mysqld_exporter.go:402-409: one turn of the loop over dbListRows.
TableDbListNext ==
    /\ probe = Name("ScrapeTableSchema")
    /\ ppc = "dblist"
    /\ \E o \in NextOutcomes :
         CASE o = "row" ->
                /\ \E database \in Databases \ Range(dbList) :
                     dbList' = Append(dbList, database)
                /\ UNCHANGED <<ppc, pret>>
           [] o = "scan" ->
                /\ Return("scan")
                /\ UNCHANGED dbList
           [] o = "end" ->
                /\ ppc' = "dbloop"
                /\ UNCHANGED <<dbList, pret>>
    /\ UNCHANGED <<probe, pctx, scrapeCh, tableSchemaDatabases, di, pcols, prows>>
    /\ UNCHANGED notProbe

\* mysqld_exporter.go:414-419, 475: the tables of the next database are
\* queried; after the last database Scrape returns nil.
TableQuery ==
    /\ probe = Name("ScrapeTableSchema")
    /\ ppc = "dbloop"
    /\ IF di > Len(dbList)
         THEN /\ Return("nil")
              /\ UNCHANGED prows
         ELSE \E o \in QueryOutcomes :
                IF o = "ok"
                  THEN ppc' = "rows" /\ prows' = 0 /\ UNCHANGED pret
                  ELSE Return(o) /\ UNCHANGED prows
    /\ UNCHANGED <<probe, pctx, scrapeCh, tableSchemaDatabases, dbList, di, pcols>>
    /\ UNCHANGED notProbe

\* mysqld_exporter.go:435-472: one turn of the loop over tableSchemaRows.
\* TABLE_SCHEMA is the database the query was made for.
TableNext ==
    /\ probe = Name("ScrapeTableSchema")
    /\ ppc = "rows"
    /\ \E o \in NextOutcomes :
         CASE o = "row" ->
                /\ prows < MaxProbeRows
                /\ \E row \in TableRows :
                     scrapeCh' = Send(scrapeCh, TableRowMetrics(dbList[di], row))
                /\ prows' = prows + 1
                /\ UNCHANGED <<ppc, di, pret>>
           [] o = "scan" ->
                /\ Return("scan")
                /\ UNCHANGED <<scrapeCh, di, prows>>
           [] o = "end" ->
                /\ ppc' = "dbloop"
                /\ di' = di + 1
                /\ UNCHANGED <<scrapeCh, prows, pret>>
    /\ UNCHANGED <<probe, pctx, tableSchemaDatabases, dbList, pcols>>
    /\ UNCHANGED notProbe

ProbeNext ==
    \/ Cancel
    \/ SlaveQuery
    \/ SlaveColumns
    \/ SlaveNext
    \/ TableStart
    \/ TableDbListNext
    \/ TableQuery
    \/ TableNext

----------------------------------------------------------------------------
(* The specifications. *)

InitDialect == DialectInit /\ TimeoutIdle /\ FilterIdle /\ GtidIdle /\ ColumnIdle /\ HandlerIdle /\ ProbeIdle

SpecDialect == InitDialect /\ [][DialectNext]_vars

InitTimeout == DialectIdle /\ TimeoutInit /\ FilterIdle /\ GtidIdle /\ ColumnIdle /\ HandlerIdle /\ ProbeIdle

SpecTimeout == InitTimeout /\ [][TimeoutNext]_vars

InitFilter == DialectIdle /\ TimeoutIdle /\ FilterInit /\ GtidIdle /\ ColumnIdle /\ HandlerIdle /\ ProbeIdle

SpecFilter == InitFilter /\ [][FilterNext]_vars

InitGtid == DialectIdle /\ TimeoutIdle /\ FilterIdle /\ GtidInit /\ ColumnIdle /\ HandlerIdle /\ ProbeIdle

SpecGtid == InitGtid /\ [][GtidNext]_vars

InitColumn == DialectIdle /\ TimeoutIdle /\ FilterIdle /\ GtidIdle /\ ColumnInit /\ HandlerIdle /\ ProbeIdle

SpecColumn == InitColumn /\ [][ColumnNext]_vars

\* The flags of the handler specifications: the default scrapers in either
\* order, an offset of 0 or 1.
HandlerFlags ==
    /\ hdr = <<>>
    /\ derived = NotCalled
    /\ timeoutOffset \in HandlerOffsets
    /\ enabledScrapers \in { <<"ScrapeGlobalStatus", "ScrapeSlaveStatus">>,
                             <<"ScrapeSlaveStatus", "ScrapeGlobalStatus">> }
    /\ collect = <<>>
    /\ filtered = NotFiltered

InitHandler == DialectIdle /\ HandlerFlags /\ GtidIdle /\ ColumnIdle /\ HandlerInit /\ ProbeIdle

SpecHandler == InitHandler /\ [][HandlerNext]_vars

SpecReload == InitHandler /\ [][ReloadNext]_vars

InitProbe == DialectIdle /\ TimeoutIdle /\ FilterIdle /\ GtidIdle /\ ColumnIdle /\ HandlerIdle /\ ProbeInit

SpecProbe == InitProbe /\ [][ProbeNext]_vars

----------------------------------------------------------------------------
(* The claims about dialect resolution. *)

Succeeded == {i \in 1..Len(sent) : sent[i].ok}

\* C1: once a status query has executed without error no further status
\* query is sent in that Scrape, and the result set whose columns are mapped
\* is the one the first successful query returned.
C1_StopsAtFirstSuccess ==
    /\ \A i \in Succeeded : i = Len(sent)
    /\ mapped # 0 => (mapped \in Succeeded /\ \A j \in Succeeded : mapped <= j)

\* C2: Scrape returns a query error if and only if every query it sent
\* failed, the error is then that of the last query, and when a query
\* succeeded Scrape reads the columns of a successfully opened result set.
C2_ErrorIffAllFailed ==
    /\ ret = "query_error" => (Succeeded = {} /\ err = Len(sent))
    /\ (pc = "done" /\ Succeeded = {}) => ret = "query_error"
    /\ (pc = "done" /\ Succeeded # {}) => mapped \in Succeeded

\* The place of a query in the declared priority order: the variants in the
\* order of slaveStatusQueries, within a variant the suffixes in the order
\* of slaveStatusQuerySuffixes.
Rank(text) ==
    CHOOSE r \in 1..(Len(slaveStatusQueries) * Len(slaveStatusQuerySuffixes)) :
        \E q \in 1..Len(slaveStatusQueries), s \in 1..Len(slaveStatusQuerySuffixes) :
            /\ text = Sprint(slaveStatusQueries[q], slaveStatusQuerySuffixes[s])
            /\ r = (q - 1) * Len(slaveStatusQuerySuffixes) + s

\* C3: the status queries are sent in the declared priority order, no query
\* text is sent twice in one Scrape, and a Scrape that succeeds had exactly
\* one successful query.
C3_PriorityOrderOnce ==
    /\ \A i, j \in 1..Len(sent) : i < j => sent[i].text # sent[j].text
    /\ \A i, j \in 1..Len(sent) :
           (i < j /\ sent[i].text \notin Range(slaveStatusQueries)
                  /\ sent[j].text \notin Range(slaveStatusQueries))
               => Rank(sent[i].text) < Rank(sent[j].text)
    /\ ret = "ok" => Cardinality(Succeeded) = 1

----------------------------------------------------------------------------
(* The claims about the deadline deriver. *)

\* C4: with t the supplied timeout (0 when the header is absent) and o the
\* offset: t = 0 gives (0, nil); t < 0 gives (0, invalid timeout); o >= t > 0
\* gives (0, offset too large); otherwise the result is (t - o, nil).
C4_DeadlineDeriver ==
    LET p == ParseFloat(hdr)
        t == IF hdr = <<>> THEN 0 ELSE p.val
        o == timeoutOffset
    IN  (derived # NotCalled /\ (hdr = <<>> \/ p.ok)) =>
          /\ t = 0 => derived = [timeout |-> 0, err |-> "nil"]
          /\ t < 0 => derived = [timeout |-> 0, err |-> "invalid"]
          /\ (t > 0 /\ o >= t) => derived = [timeout |-> 0, err |-> "tootight"]
          /\ (t > 0 /\ o < t) => derived = [timeout |-> t - o, err |-> "nil"]

\* The offset equals the supplied timeout: the boundary of o >= t > 0.
C4_Witness ==
    /\ derived = [timeout |-> 0, err |-> "tootight"]
    /\ ParseFloat(hdr).val = timeoutOffset

----------------------------------------------------------------------------
(* The claims about probe selection. *)

\* The enabled scrapers a parameter names.
Named == {sc \in Range(enabledScrapers) : Name(sc) \in Range(collect)}

\* The place of a scraper in the enabled list.
Place(sc) == CHOOSE i \in 1..Len(enabledScrapers) : enabledScrapers[i] = sc

\* The result is the named scrapers, each once, in the order of the enabled
\* list; the whole enabled list when no enabled scraper is named.
SelectsNamed ==
    /\ Named # {} =>
          /\ Range(filtered) = Named
          /\ Len(filtered) = Cardinality(Named)
          /\ \A i, j \in 1..Len(filtered) : i < j => Place(filtered[i]) < Place(filtered[j])
    /\ Named = {} => filtered = enabledScrapers
    /\ Named = Range(enabledScrapers) => filtered = enabledScrapers

\* C6 as stated: SelectsNamed, and the result is never empty for an
\* inclusion list of only unknown identities.
C6_AsStated ==
    filtered # NotFiltered =>
        /\ SelectsNamed
        /\ Named = {} => filtered # <<>>

\* C6, amended: SelectsNamed, and the result is never empty for an inclusion
\* list of only unknown identities when at least one scraper is enabled.
C6_Selection ==
    filtered # NotFiltered =>
        /\ SelectsNamed
        /\ (Named = {} /\ enabledScrapers # <<>>) => filtered # <<>>

\* The parameters name two enabled scrapers against the order of the
\* enabled list, and a third scraper is enabled and not named.
C6_Witness ==
    /\ filtered # NotFiltered
    /\ Len(enabledScrapers) = 3
    /\ Len(collect) = 2
    /\ Cardinality(Named) = 2
    /\ Place(CHOOSE sc \in Named : Name(sc) = collect[1])
         > Place(CHOOSE sc \in Named : Name(sc) = collect[2])

----------------------------------------------------------------------------
(* The claims about parseMariaDBGtid. *)

\* The positions of character x in s.
Positions(s, x) == {i \in 1..Len(s) : s[i] = x}

\* The k-th smallest member of a set of numbers.
Kth(S, k) == CHOOSE x \in S : Cardinality({y \in S : y < x}) = k - 1

\* The k-th comma-separated entry of s: what lies between its (k-1)-th and
\* its k-th comma.
Entry(s, k) ==
    LET commas == Positions(s, ",")
        from   == IF k = 1 THEN 1 ELSE Kth(commas, k - 1) + 1
        to     == IF k = Cardinality(commas) + 1 THEN Len(s) ELSE Kth(commas, k) - 1
    IN  SubSeq(s, from, to)

\* An entry <domain>-<server>-<sequence>: two dashes, and after the second
\* one a non-empty run of digits.
WellFormed(e) ==
    LET dashes == Positions(e, "-")
    IN  /\ Cardinality(dashes) = 2
        /\ Kth(dashes, 2) < Len(e)
        /\ \A i \in (Kth(dashes, 2) + 1)..Len(e) : e[i] \in Digits

\* The (domain, server, sequence) of a well-formed entry.
Triple(e) ==
    LET dashes == Positions(e, "-")
        d1 == Kth(dashes, 1)
        d2 == Kth(dashes, 2)
    IN  <<SubSeq(e, 1, d1 - 1), SubSeq(e, d1 + 1, d2 - 1), ParseDigits(SubSeq(e, d2 + 1, Len(e)))>>

\* The (domain_id, server_id, value) of the metrics sent, in order.
SentTriples == [k \in 1..Len(gtidCh) |-> <<gtidCh[k].labels[5], gtidCh[k].labels[6], gtidCh[k].value>>]

\* C8: parseMariaDBGtid sends one metric per well-formed entry of the value,
\* in input order, with the entry's domain, server and sequence; malformed
\* entries send nothing and do not stop the entries after them; the empty
\* string sends nothing; "5-1-100,6-2-200" gives (5,1,100) and (6,2,200).
C8_GtidEntries ==
    gtidDone =>
        LET n  == Cardinality(Positions(gtidValue, ",")) + 1
            wf == SelectSeq([k \in 1..n |-> Entry(gtidValue, k)], WellFormed)
        IN  /\ SentTriples = [k \in 1..Len(wf) |-> Triple(wf[k])]
            /\ \A k \in 1..Len(gtidCh) :
                  /\ SubSeq(gtidCh[k].labels, 1, 4) = GtidLabels
                  /\ gtidCh[k].name = BuildFQName("mysql", "slave_status", ToLower(gtidName))
            /\ gtidValue = <<>> => gtidCh = <<>>
            /\ gtidValue = <<"5", "-", "1", "-", "1", "0", "0", ",", "6", "-", "2", "-", "2", "0", "0">>
                  => SentTriples = << <<(<<"5">>), (<<"1">>), 100>>, <<(<<"6">>), (<<"2">>), 200>> >>

\* A malformed entry (wrong arity) before a well-formed one, whose metric is sent.
C8_Witness ==
    /\ gtidValue = <<"5", "-", "1", ",", "6", "-", "2", "-", "2", "0", "0">>
    /\ gtidDone
    /\ Len(gtidCh) = 1
    /\ gtidCh[1].value = 200

----------------------------------------------------------------------------
(* The claims about the column mapping. *)

\* The permutations of 1..n.
Perms(n) == {f \in [1..n -> 1..n] : \A i, j \in 1..n : i # j => f[i] # f[j]}

Permuted(seq, f) == [i \in 1..Len(seq) |-> seq[f[i]]]

\* The raw value of the column called name in the row scanned last, ""
\* when the result has no such column.
Field(name) ==
    LET vals == {scanArgs[i] : i \in {k \in 1..Len(slaveCols) : slaveCols[k] = name}}
    IN  IF vals = {} THEN <<>> ELSE CHOOSE v \in vals : TRUE

OrElse(a, b) == IF a # <<>> THEN a ELSE b

\* C7: the set of metrics a row sends is the same for every permutation of
\* its (column name, raw value) pairs, and the labels master_host,
\* master_uuid, channel_name, connection_name are Master_Host else
\* Source_Host, Master_UUID else Source_UUID, Channel_Name, Connection_name,
\* each the empty string when the column is absent.
C7_OrderIndependent ==
    rowsRead > 0 =>
        /\ \A f \in Perms(Len(slaveCols)) :
              Range(ScrapeRow(Permuted(slaveCols, f), Permuted(scanArgs, f))) = Range(ch)
        /\ \A k \in 1..Len(ch) :
              SubSeq(ch[k].labels, 1, 4) =
                  << OrElse(Field("Master_Host"), Field("Source_Host")),
                     OrElse(Field("Master_UUID"), Field("Source_UUID")),
                     Field("Channel_Name"),
                     Field("Connection_name") >>

\* A row whose host column comes after the numeric column it labels.
C7_Witness ==
    /\ rowsRead > 0
    /\ slaveCols = <<"Seconds_Behind_Master", "Master_Host">>
    /\ scanArgs = << <<"7">>, <<"0", "-", "1", "-", "7">> >>
    /\ Len(ch) = 1
    /\ ch[1].labels[1] = <<"0", "-", "1", "-", "7">>

\* The generic metrics on ch that are named after column col.
GenericFor(col) ==
    {k \in 1..Len(ch) : ch[k].kind = "untyped"
                          /\ ch[k].name = "mysql_slave_status_" \o ToLower(col)}

\* C9: for every column of the result, a row sends exactly one generic
\* metric named after the lowercased column name, with the parsed value,
\* when the raw value is a number and none otherwise; no other generic
\* metric is sent; and Scrape returns an error only when Columns or Scan
\* raised one, never for a value that is no number.
C9_DynamicColumns ==
    /\ rowsRead > 0 =>
          /\ \A i \in 1..Len(slaveCols) :
                IF parseStatus(scanArgs[i]).ok
                  THEN /\ Cardinality(GenericFor(slaveCols[i])) = 1
                       /\ \A k \in GenericFor(slaveCols[i]) : ch[k].value = parseStatus(scanArgs[i]).val
                  ELSE GenericFor(slaveCols[i]) = {}
          /\ \A k \in 1..Len(ch) :
                ch[k].kind = "untyped" => \E i \in 1..Len(slaveCols) : k \in GenericFor(slaveCols[i])
    /\ cret = "error" => rowsErr # "none"
    /\ (cpc = "done" /\ rowsErr = "none") => cret = "ok"

\* The second row of a result: a text column, then a numeric column whose
\* metric is sent, and Scrape goes on.
C9_Witness ==
    /\ cpc = "rows"
    /\ rowsRead = 2
    /\ slaveCols = <<"Slave_IO_State", "Seconds_Behind_Master">>
    /\ scanArgs = << <<"0", "-", "1", "-", "7">>, <<"7">> >>
    /\ Len(ch) = 1
    /\ ch[1].name = "mysql_slave_status_seconds_behind_master"
    /\ ch[1].value = 7

----------------------------------------------------------------------------
(* The claims about the request handler and the reload endpoint. *)

\* The derivation of the timeout fails: the header value is no number, is
\* negative, or is positive and not above the offset.
DerivationFails(h, o) ==
    /\ h # <<>>
    /\ \/ ~ParseFloat(h).ok
       \/ ParseFloat(h).val < 0
       \/ ParseFloat(h).val > 0 /\ o >= ParseFloat(h).val

Delegated(r) == req[r].pc \in {"registered", "done"}

\* C5: a request whose timeout derivation fails still selects its probes,
\* builds its registry and hands the collector the request's own context; a
\* timeout context exists only for a derived timeout above 0, and is then
\* a child of the request's context with that timeout.
C5_FailOpen ==
    \A r \in RequestIds :
        /\ req[r].pc = "done" => req[r].collector.registry > 0
        /\ Delegated(r) =>
              /\ req[r].collector.scrapers =
                    (IF req[r].collect = <<>> THEN enabledScrapers ELSE <<"ScrapeSlaveStatus">>)
              /\ req[r].collector.ctx = req[r].ctx
        /\ (Delegated(r) /\ DerivationFails(req[r].hdr, timeoutOffset)) =>
              req[r].collector.ctx = RequestContext(r)
        /\ req[r].ctx.timeout > 0 =>
              /\ req[r].derived.timeout > 0
              /\ req[r].ctx.request = r
              /\ req[r].ctx.timeout = ParseFloat(req[r].hdr).val - timeoutOffset

\* A request with the header value "-1" has been served under its own context.
C5_Witness ==
    \E r \in RequestIds :
        /\ req[r].pc = "done"
        /\ req[r].hdr = <<"-", "1">>
        /\ req[r].derived.err = "invalid"
        /\ req[r].collector.registry > 0
        /\ req[r].collector.ctx = RequestContext(r)

\* A request keeps the snapshot it read at line 172: its DSN is formed from
\* it and is the one its collector scrapes, whatever is reloaded meanwhile;
\* registries are not shared; a failed reload leaves the snapshot as the
\* last successful one set it.
RequestIsolation ==
    /\ \A r \in RequestIds :
          /\ req[r].pc \in {"dsn", "context", "registered", "done"} =>
                /\ req[r].cfg \in Configs
                /\ req[r].dsn = FormDSN(req[r].cfg, req[r].target)
          /\ Delegated(r) => req[r].collector.dsn = req[r].dsn
          /\ \A r2 \in RequestIds :
                (r2 # r /\ Delegated(r) /\ Delegated(r2))
                    => req[r].collector.registry # req[r2].collector.registry
    /\ cConfig = lastLoaded

\* C10: RequestIsolation, and a reload request is answered "ok" only when
\* its ReloadConfig succeeded.
C10_ReloadIsolation ==
    /\ RequestIsolation
    /\ \A l \in ReloadIds : rel[l].acked => rel[l].result = "nil"

----------------------------------------------------------------------------
(* The claims about what a failing probe leaves on the channel. *)

\* a is a prefix of b.
IsPrefix(a, b) == Len(a) <= Len(b) /\ SubSeq(b, 1, Len(a)) = a

\* Scrape has returned an error.
Failed == pret \notin {"none", "nil"}

\* The metrics on the channel that this Scrape has sent.
OwnMetrics == {i \in 1..Len(scrapeCh) : scrapeCh[i] \notin UNION {Range(e) : e \in EarlierMetrics}}

----------------------------------------------------------------------------
(* The claim about the result sets of dialect resolution. *)

\* C12: every result set a successful status query returned during dialect
\* resolution is closed by the time ScrapeSlaveStatus.Scrape returns, on the
\* success and on the error return path alike; while Scrape runs, the only
\* result set open on the connection is the one slaveStatusRows refers to,
\* so none is overwritten by a later attempt and left open.
C12_ResultSetsClosed ==
    /\ open \subseteq {slaveStatusRows}
    /\ pc = "done" => open = {}

====
